---- MODULE Spec2Model ----
(***************************************************************************)
(* Model of receipt_processor: the blob-triggered handler                  *)
(* event_grid_blob_trigger, the MySQL lookup get_username_from_db and the  *)
(* helpers get_field_value / get_field_confidence.                         *)
(*                                                                         *)
(* Python values are tagged records [k |-> kind, v |-> payload]; a Python  *)
(* str is a sequence of one-character strings, so that split, endswith     *)
(* and strftime are computed character by character.                       *)
(***************************************************************************)
EXTENDS Integers, Sequences, FiniteSets, TLC

\* ------------------------------------------------------------------ bounds
\* Largest number of '/'-separated segments of a generated blob path.
MaxSegs == 4
\* Largest number of documents in a generated analysis result.
MaxDocs == 2
\* Largest number of entries in a generated Items array.
MaxItems == 3

\* ------------------------------------------------------------------ values
None == [k |-> "None", v |-> 0]
\* hasattr(obj, name) is False
NoAttr == [k |-> "NoAttr", v |-> 0]
\* key not in dict
Absent == [k |-> "Absent", v |-> 0]
Str(s) == [k |-> "str", v |-> s]
Num(n) == [k |-> "num", v |-> n]
Date(ymd) == [k |-> "date", v |-> ymd]
Time(hms) == [k |-> "time", v |-> hms]
Currency(amount) == [k |-> "currency", v |-> [amount |-> amount]]
List(s) == [k |-> "list", v |-> s]
Dict(d) == [k |-> "dict", v |-> d]
Field(attrs) == [k |-> "field", v |-> attrs]

\* A DocumentField none of whose attributes is populated.
BlankAttrs ==
  [value_string |-> None, value_number |-> None, value_date |-> None,
   value_time |-> None, value_currency |-> None, value |-> NoAttr,
   confidence |-> None, value_object |-> None, value_array |-> None]

\* hasattr(field, a) and field.a is not None
HasValue(field, a) == field.v[a] # NoAttr /\ field.v[a] # None

Digits == <<"0", "1", "2", "3", "4", "5", "6", "7", "8", "9">>

RECURSIVE Pad(_, _)
\* n as decimal digits, zero-padded to at least w characters
Pad(n, w) ==
  IF w <= 1 /\ n < 10 THEN <<Digits[n + 1]>>
  ELSE Pad(n \div 10, w - 1) \o <<Digits[(n % 10) + 1]>>

\* value_date.strftime('%Y-%m-%d')
StrfDate(ymd) == Pad(ymd[1], 4) \o <<"-">> \o Pad(ymd[2], 2) \o <<"-">> \o Pad(ymd[3], 2)

\* value_time.strftime('%H:%M:%S')
StrfTime(hms) == Pad(hms[1], 2) \o <<":">> \o Pad(hms[2], 2) \o <<":">> \o Pad(hms[3], 2)

\* get_field_value with the string and number checks swapped
get_field_value_swapped(field) ==
  IF field = None THEN None
  ELSE IF HasValue(field, "value_number") THEN field.v.value_number
  ELSE IF HasValue(field, "value_string") THEN field.v.value_string
  ELSE IF HasValue(field, "value_date") THEN Str(StrfDate(field.v.value_date.v))
  ELSE IF HasValue(field, "value_time") THEN Str(StrfTime(field.v.value_time.v))
  ELSE IF HasValue(field, "value_currency")
          /\ field.v.value_currency.v.amount # NoAttr
          /\ field.v.value_currency.v.amount # None
       THEN field.v.value_currency.v.amount
  ELSE IF HasValue(field, "value") THEN field.v.value
  ELSE None

get_field_value(field) ==
  IF field = None THEN None
  ELSE IF HasValue(field, "value_string") THEN field.v.value_string
  ELSE IF HasValue(field, "value_number") THEN field.v.value_number
  ELSE IF HasValue(field, "value_date") THEN Str(StrfDate(field.v.value_date.v))
  ELSE IF HasValue(field, "value_time") THEN Str(StrfTime(field.v.value_time.v))
  ELSE IF HasValue(field, "value_currency")
          /\ field.v.value_currency.v.amount # NoAttr
          /\ field.v.value_currency.v.amount # None
       THEN field.v.value_currency.v.amount
  ELSE IF HasValue(field, "value") THEN field.v.value
  ELSE None

get_field_confidence(field) ==
  IF field = None THEN None
  ELSE IF field.v.confidence # NoAttr THEN field.v.confidence ELSE None

\* ------------------------------------------------- inputs of the helpers
StringVals == {NoAttr, None, Str(<<>>), Str(<<"a">>)}
NumberVals == {NoAttr, None, Num(0), Num(42)}
DateVals == {NoAttr, None, Date(<<2024, 5, 1>>)}
TimeVals == {NoAttr, None, Time(<<9, 5, 0>>)}
CurrencyVals == {NoAttr, None, Currency(NoAttr), Currency(None), Currency(Num(7))}
GenericVals == {NoAttr, None, Str(<<"g">>)}
ConfidenceVals == {NoAttr, None, Num(9000)}

FieldInputs ==
  {None} \cup
  { Field([BlankAttrs EXCEPT !.value_string = s, !.value_number = n, !.value_date = d,
                             !.value_time = t, !.value_currency = c, !.value = g,
                             !.confidence = cf]) :
      s \in StringVals, n \in NumberVals, d \in DateVals, t \in TimeVals,
      c \in CurrencyVals, g \in GenericVals, cf \in ConfidenceVals }

\* ------------------------------------------------------------ str methods
\* All sequences over S of length lo..hi
SeqsOf(S, lo, hi) == UNION {[1..m -> S] : m \in lo..hi}

RECURSIVE Join(_)
\* '/'.join(segs), segs non-empty
Join(segs) ==
  IF Len(segs) = 1 THEN segs[1] ELSE segs[1] \o <<"/">> \o Join(Tail(segs))

RECURSIVE SplitFrom(_, _, _)
\* the segments of s from position i on, cur being the segment read so far
SplitFrom(s, i, cur) ==
  IF i > Len(s) THEN <<cur>>
  ELSE IF s[i] = "/" THEN <<cur>> \o SplitFrom(s, i + 1, <<>>)
  ELSE SplitFrom(s, i + 1, Append(cur, s[i]))

\* s.split('/')
Split(s) == SplitFrom(s, 1, <<>>)

\* s.endswith(suffix)
EndsWith(s, suffix) ==
  /\ Len(s) >= Len(suffix)
  /\ SubSeq(s, Len(s) - Len(suffix) + 1, Len(s)) = suffix

PlaceholderName == <<".", "p", "l", "a", "c", "e", "h", "o", "l", "d", "e", "r">>
PlaceholderSuffix == <<"/">> \o PlaceholderName

\* bool(x) of the values the handler tests for truth
Truthy(x) ==
  CASE x.k = "None" -> FALSE
    [] x.k = "str" -> x.v # <<>>
    [] x.k = "num" -> x.v # 0
    [] x.k = "list" -> x.v # <<>>
    [] x.k = "dict" -> \E key \in DOMAIN x.v : x.v[key] # Absent
    [] OTHER -> TRUE

\* any([...]) in place of all([...])
AnyTruthy(env) == \E name \in DOMAIN env : Truthy(env[name])

\* all([...]) over the values read from the environment
AllTruthy(env) == \A name \in DOMAIN env : Truthy(env[name])

\* ------------------------------------------------------- blob-path inputs
DirNames == {<<"u">>, <<"d">>}
FileNames == {<<"f">>, PlaceholderName}
BlobNames ==
  { Join(dirs \o <<file>>) : dirs \in SeqsOf(DirNames, 0, MaxSegs - 1), file \in FileNames }
BlobUri == Str(<<"h">>)

\* os.environ.get(name): unset or set
EnvValues == {None, Str(<<"x">>)}

\* ------------------------------------------------------ item processing
\* the keys an item's value_object is generated over
ObjKeys == {"Description", "Quantity", "TotalPrice", "UnitPrice", "Other"}
\* the four sub-fields read from an item, in the order the code reads them,
\* each with the key it is stored under
SubFields ==
  << <<"Description", "description">>, <<"Quantity", "quantity">>,
     <<"TotalPrice", "totalPrice">>, <<"UnitPrice", "unitPrice">> >>
ItemKeys == {"description", "quantity", "totalPrice", "unitPrice"}
\* item_data = {}
EmptyItem == [key \in ItemKeys |-> Absent]
EmptyObject == [key \in ObjKeys |-> Absent]

\* if confidence is not None: item_confidences.append(confidence)
KeepConfidence(confidence) == confidence # None

RECURSIVE ExtractSubFields(_, _, _)
\* the four "if <name> in item_doc_field.value_object" blocks, from the i-th on
ExtractSubFields(obj, i, acc) ==
  IF i > Len(SubFields) THEN acc
  ELSE LET src == SubFields[i][1]
           dst == SubFields[i][2]
           confidence == get_field_confidence(obj[src])
       IN ExtractSubFields(obj, i + 1,
            IF obj[src] # Absent
            THEN [item_data |-> [acc.item_data EXCEPT ![dst] = get_field_value(obj[src])],
                  confs |-> IF KeepConfidence(confidence)
                            THEN Append(acc.confs, confidence) ELSE acc.confs]
            ELSE acc)

\* an item with no known sub-field is appended as well
ItemNonEmptyAlways(item_data) == TRUE

\* if item_data:
ItemNonEmpty(item_data) == \E key \in ItemKeys : item_data[key] # Absent

\* hasattr(item_doc_field, 'value_object') and item_doc_field.value_object
HasObject(entry) ==
  /\ entry # None
  /\ entry.v.value_object # NoAttr
  /\ Truthy(entry.v.value_object)

RECURSIVE ItemLoop(_, _, _)
\* for item_doc_field in items_field.value_array, from the i-th entry on
ItemLoop(arr, i, acc) ==
  IF i > Len(arr) THEN acc
  ELSE IF HasObject(arr[i])
  THEN LET r == ExtractSubFields(arr[i].v.value_object.v, 1,
                                 [item_data |-> EmptyItem, confs |-> acc.confs])
       IN ItemLoop(arr, i + 1,
                   [items |-> IF ItemNonEmpty(r.item_data)
                              THEN Append(acc.items, r.item_data) ELSE acc.items,
                    confs |-> r.confs,
                    log |-> acc.log])
  ELSE ItemLoop(arr, i + 1, [acc EXCEPT !.log = Append(@, "item_no_value_object")])

\* --------------------------------------------------- document processing
\* the optional merchant / tax fields with the keys they are stored under
OptionalFields ==
  << <<"NombreComercio", "nombreComercio">>, <<"RIF-comercio", "rifComercio">>,
     <<"FacturaNumero", "facturaNumero">>, <<"NombreRazon", "nombreRazon">>,
     <<"RIF-CI", "rifCI">>, <<"MontoExento", "montoExento">>,
     <<"MontoIVA", "montoIVA">>, <<"BaseImponible", "baseImponible">> >>
DocFieldNames ==
  {"FechaTransaccion", "MontoTotal", "Items"} \cup
  {OptionalFields[i][1] : i \in 1..Len(OptionalFields)}
ReceiptKeys ==
  {"fechaTransaccion", "montoTotal", "items", "itemsConfidenceScore"} \cup
  {OptionalFields[i][2] : i \in 1..Len(OptionalFields)}
\* full_receipt_data = {}
EmptyReceipt == [key \in ReceiptKeys |-> Absent]

RECURSIVE ExtractOptional(_, _, _)
\* the eight "if <name> in doc.fields" blocks, from the i-th on
ExtractOptional(fields, i, data) ==
  IF i > Len(OptionalFields) THEN data
  ELSE ExtractOptional(fields, i + 1,
         IF fields[OptionalFields[i][1]] # Absent
         THEN [data EXCEPT ![OptionalFields[i][2]] = get_field_value(fields[OptionalFields[i][1]])]
         ELSE data)

\* The body of "for doc in receipt_result.documents" on one document. st holds the
\* locals fecha, monto, items, confs, data (full_receipt_data), log; raised is set
\* when the body raises (attribute access on an Items field that is None).
ProcessDoc(st, doc) ==
  LET f == doc.fields
      s1 == IF f["FechaTransaccion"] # Absent
            THEN [st EXCEPT !.fecha = get_field_value(f["FechaTransaccion"]),
                            !.data["fechaTransaccion"] = get_field_value(f["FechaTransaccion"])]
            ELSE [st EXCEPT !.log = Append(@, "fecha_not_found")]
      s2 == IF f["MontoTotal"] # Absent
            THEN [s1 EXCEPT !.monto = get_field_value(f["MontoTotal"]),
                            !.data["montoTotal"] = get_field_value(f["MontoTotal"])]
            ELSE [s1 EXCEPT !.log = Append(@, "monto_not_found")]
      arr == f["Items"].v.value_array
      r == ItemLoop(arr.v, 1, [items |-> s2.items, confs |-> s2.confs, log |-> s2.log])
      s3 == IF f["Items"] = Absent THEN [s2 EXCEPT !.log = Append(@, "items_not_found")]
            ELSE IF f["Items"] = None \/ arr = NoAttr THEN [s2 EXCEPT !.raised = TRUE]
            ELSE IF Truthy(arr) /\ arr.k = "list"
            THEN [s2 EXCEPT !.items = r.items, !.confs = r.confs, !.log = r.log,
                            !.data["items"] = List(r.items)]
            ELSE [s2 EXCEPT !.log = Append(@, "items_no_array")]
  IN IF s3.raised THEN s3 ELSE [s3 EXCEPT !.data = ExtractOptional(f, 1, @)]

\* the loop without its break: every document is processed
DocumentsVisitedAll(documents) == documents

\* The documents the loop body runs on: the loop ends with an unconditional break.
DocumentsVisited(documents) == IF documents = <<>> THEN <<>> ELSE <<documents[1]>>

RECURSIVE ProcessDocs(_, _, _)
\* the loop body applied to docs from the i-th on, stopping when the body raises
ProcessDocs(st, docs, i) ==
  IF i > Len(docs) \/ st.raised THEN st
  ELSE ProcessDocs(ProcessDoc(st, docs[i]), docs, i + 1)

RECURSIVE SumConf(_)
\* sum(item_confidences), in units of 0.0001
SumConf(confs) == IF confs = <<>> THEN 0 ELSE confs[1].v + SumConf(Tail(confs))

\* the mean cut off after 4 decimals instead of rounded
RoundedMeanTruncated(total, n) == {total \div n}

\* round(total / n, 4) with total in units of 0.0001: the nearest multiple of
\* 0.0001; when the mean lies exactly halfway, the binary value of the float
\* quotient decides, so either neighbour can result.
RoundedMean(total, n) ==
  LET q == total \div n
      r == total % n
  IN IF 2 * r < n THEN {q} ELSE IF 2 * r > n THEN {q + 1} ELSE {q, q + 1}

\* ------------------------------------------------- analysis-result inputs
\* a DocumentField with one attribute set and a confidence
FieldWith(attr, val, confidence) ==
  Field([BlankAttrs EXCEPT ![attr] = val, !.confidence = confidence])
ObjectWith(subfields) ==
  Field([BlankAttrs EXCEPT !.value_object =
    Dict([key \in ObjKeys |-> IF key \in DOMAIN subfields THEN subfields[key] ELSE Absent])])

EntryNoObject == Field(BlankAttrs)
EntryNoAttr == Field([BlankAttrs EXCEPT !.value_object = NoAttr])
EntryEmptyObject == Field([BlankAttrs EXCEPT !.value_object = Dict(EmptyObject)])
EntryOtherOnly == ObjectWith([Other |-> FieldWith("value_string", Str(<<"o">>), Num(5000))])
EntryDesc == ObjectWith([Description |-> FieldWith("value_string", Str(<<"a">>), Num(9001))])
EntryAll ==
  ObjectWith([Description |-> FieldWith("value_string", Str(<<"b">>), Num(9000)),
              Quantity |-> FieldWith("value_number", Num(2), Num(8000)),
              TotalPrice |-> FieldWith("value_currency", Currency(Num(7)), Num(9500)),
              UnitPrice |-> FieldWith("value_number", Num(3), Num(9900))])
EntryNullish ==
  ObjectWith([Quantity |-> Field(BlankAttrs),
              UnitPrice |-> None])
EntryPrice == ObjectWith([TotalPrice |-> FieldWith("value_number", Num(0), Num(8000))])
EntryZeroConf == ObjectWith([Quantity |-> FieldWith("value_number", Num(1), Num(0))])
ItemEntries ==
  {None, EntryNoObject, EntryNoAttr, EntryEmptyObject, EntryOtherOnly, EntryDesc,
   EntryAll, EntryNullish, EntryPrice, EntryZeroConf}

NoFields == [name \in DocFieldNames |-> Absent]
DateField(ymd) == FieldWith("value_date", Date(ymd), Num(9900))
ItemsField(arr) == Field([BlankAttrs EXCEPT !.value_array = arr])

DocEmpty == [fields |-> NoFields]
DocDateOnly == [fields |-> [NoFields EXCEPT !["FechaTransaccion"] = DateField(<<2024, 5, 1>>)]]
DocUnpopulated ==
  [fields |-> [NoFields EXCEPT !["FechaTransaccion"] = Field(BlankAttrs),
                               !["MontoTotal"] = FieldWith("value_number", Num(42), Num(9000))]]
DocFull ==
  [fields |-> [NoFields EXCEPT !["FechaTransaccion"] = DateField(<<2024, 5, 1>>),
                               !["MontoTotal"] = FieldWith("value_number", Num(42), Num(9000)),
                               !["Items"] = ItemsField(List(<<EntryDesc>>)),
                               !["NombreComercio"] = FieldWith("value_string", Str(<<"a">>), None)]]
DocOther ==
  [fields |-> [NoFields EXCEPT !["FechaTransaccion"] = DateField(<<2023, 12, 31>>),
                               !["MontoTotal"] = FieldWith("value_currency", Currency(Num(7)), None),
                               !["Items"] = ItemsField(List(<<EntryAll, EntryNoObject>>)),
                               !["RIF-CI"] = FieldWith("value_string", Str(<<"g">>), None),
                               !["MontoIVA"] = FieldWith("value_number", Num(0), None)]]
DocBadItems ==
  [fields |-> [NoFields EXCEPT !["FechaTransaccion"] = DateField(<<2024, 5, 1>>),
                               !["MontoTotal"] = FieldWith("value_number", Num(42), Num(9000)),
                               !["Items"] = None]]
HandlerDocs == {DocEmpty, DocDateOnly, DocUnpopulated, DocFull, DocOther, DocBadItems}
\* receipt_result.documents as the handler's runs receive it
AnalysisResults == SeqsOf(HandlerDocs, 0, MaxDocs)

\* one valid document whose Items field varies
DocWithItems(arr) ==
  [fields |-> [NoFields EXCEPT !["FechaTransaccion"] = DateField(<<2024, 5, 1>>),
                               !["MontoTotal"] = FieldWith("value_number", Num(42), Num(9000)),
                               !["Items"] = ItemsField(arr)]]
ItemArrays == {None} \cup {List(a) : a \in SeqsOf(ItemEntries, 0, MaxItems)}
NormalizeResults == { <<DocWithItems(arr)>> : arr \in ItemArrays }

\* --------------------------------------------------------------- state
Unbound == [k |-> "Unbound", v |-> 0]
Connection(state) == [k |-> "connection", v |-> state]

MysqlKeys == {"MYSQL_HOST", "MYSQL_USER", "MYSQL_PASSWORD", "MYSQL_DATABASE"}
DIKeys == {"DI_ENDPOINT", "DI_KEY"}
CosmosKeys == {"COSMOS_ENDPOINT", "COSMOS_KEY", "COSMOS_DATABASE_NAME", "COSMOS_CONTAINER_NAME"}
FinalKeys == {"id", "userId", "id_usuario", "username", "directorio", "blobURL"}

VARIABLES
  pc,                  \* position of the invocation in event_grid_blob_trigger
  blob_name,           \* myblob.name
  user_id, random_subdirectory,
  mysql_env,           \* get_username_from_db: the four MYSQL_* values read
  cnx,                 \* get_username_from_db: Unbound, or a connection open or closed
  db_username,         \* get_username_from_db: its local username
  username,
  di_env,              \* doc_int_endpoint, doc_int_key
  receipt_result,      \* the analysis result: [documents |-> ...]
  fecha_transaccion, monto_total, extracted_items, item_confidences,
  full_receipt_data,
  cosmos_env,          \* cosmos_endpoint, cosmos_key, database and container name
  calls,               \* the external calls made so far, in order
  log,                 \* the messages logged so far, in order
  container_items,     \* the documents the Cosmos container has accepted
  fpc, field_in, field_out   \* a direct call of get_field_value / get_field_confidence

vars ==
  <<pc, blob_name, user_id, random_subdirectory, mysql_env, cnx, db_username, username,
    di_env, receipt_result, fecha_transaccion, monto_total, extracted_items,
    item_confidences, full_receipt_data, cosmos_env, calls, log, container_items,
    fpc, field_in, field_out>>

lookup_vars == <<mysql_env, cnx, db_username, username>>
extract_vars ==
  <<fecha_transaccion, monto_total, extracted_items, item_confidences, full_receipt_data>>
helper_vars == <<fpc, field_in, field_out>>
handler_vars ==
  <<pc, blob_name, user_id, random_subdirectory, lookup_vars, di_env, receipt_result,
    extract_vars, cosmos_env, calls, log, container_items>>

\* ------------------------------------------------ event_grid_blob_trigger
\* the start marker and the placeholder check
Trigger ==
  /\ pc = "start"
  /\ IF EndsWith(blob_name, PlaceholderSuffix)
     THEN /\ log' = log \o <<"STARTED", "placeholder_ignored">>
          /\ pc' = "done"
     ELSE /\ log' = Append(log, "STARTED")
          /\ pc' = "parse"
  /\ UNCHANGED <<blob_name, user_id, random_subdirectory, lookup_vars, di_env,
                 receipt_result, extract_vars, cosmos_env, calls, container_items,
                 helper_vars>>

\* user_id and random_subdirectory taken from swapped positions
PathIdsSwapped(parts) == [user_id |-> Str(parts[3]), random_subdirectory |-> Str(parts[2])]

\* user_id = blob_path_parts[1]; random_subdirectory = blob_path_parts[2]
PathIds(parts) == [user_id |-> Str(parts[2]), random_subdirectory |-> Str(parts[3])]

ParsePath ==
  /\ pc = "parse"
  /\ LET blob_path_parts == Split(blob_name)
     IN IF Len(blob_path_parts) > 3
        THEN /\ user_id' = PathIds(blob_path_parts).user_id
             /\ random_subdirectory' = PathIds(blob_path_parts).random_subdirectory
             /\ log' = Append(log, "processing_blob")
             /\ pc' = "lookup_env"
        ELSE /\ user_id' = None
             /\ random_subdirectory' = None
             /\ log' = Append(log, "path_error")
             /\ pc' = "done"
  /\ UNCHANGED <<blob_name, lookup_vars, di_env, receipt_result, extract_vars,
                 cosmos_env, calls, container_items, helper_vars>>

\* ---------------------------------------------------- get_username_from_db
\* username = None; the MYSQL_* values are read and checked
LookupReadEnv ==
  /\ pc = "lookup_env"
  /\ \E env \in [MysqlKeys -> EnvValues] :
       /\ mysql_env' = env
       /\ db_username' = None
       /\ IF AllTruthy(env)
          THEN log' = log /\ pc' = "lookup_connect"
          ELSE log' = Append(log, "mysql_env_missing") /\ pc' = "lookup_finally"
  /\ UNCHANGED <<blob_name, user_id, random_subdirectory, cnx, username, di_env,
                 receipt_result, extract_vars, cosmos_env, calls, container_items,
                 helper_vars>>

\* cnx = pymysql.connect(...); a MySQLError leaves cnx unassigned
LookupConnect ==
  /\ pc = "lookup_connect"
  /\ calls' = Append(calls, "mysql")
  /\ \E connected \in BOOLEAN :
       IF connected
       THEN cnx' = Connection("open") /\ log' = log /\ pc' = "lookup_query"
       ELSE cnx' = cnx /\ log' = Append(log, "mysql_error") /\ pc' = "lookup_finally"
  /\ UNCHANGED <<blob_name, user_id, random_subdirectory, mysql_env, db_username,
                 username, di_env, receipt_result, extract_vars, cosmos_env,
                 container_items, helper_vars>>

\* cursor.execute(...); cursor.fetchone()
LookupQuery ==
  /\ pc = "lookup_query"
  /\ \E outcome \in {"error", "no_row", "row"} :
       CASE outcome = "error" ->
              db_username' = db_username /\ log' = Append(log, "mysql_error")
         [] outcome = "no_row" ->
              db_username' = db_username /\ log' = Append(log, "no_username_found")
         [] outcome = "row" ->
              db_username' = Str(<<"n">>) /\ log' = Append(log, "username_found")
  /\ pc' = "lookup_finally"
  /\ UNCHANGED <<blob_name, user_id, random_subdirectory, mysql_env, cnx, username,
                 di_env, receipt_result, extract_vars, cosmos_env, calls,
                 container_items, helper_vars>>

\* finally: "if cnx is not None". cnx is assigned only by pymysql.connect, so
\* reading it before that raises UnboundLocalError, which replaces the return.
FinallyOutcome(c) == IF c = Unbound THEN "raise" ELSE "return"

\* the finally block, the return, and the caller's "if username is None"
LookupFinally ==
  /\ pc = "lookup_finally"
  /\ CASE FinallyOutcome(cnx) = "raise" ->
            /\ pc' = "raised"
            /\ UNCHANGED <<cnx, username, log>>
       [] FinallyOutcome(cnx) = "return" ->
            /\ cnx' = Connection("closed")
            /\ username' = db_username
            /\ log' = log \o <<"mysql_closed">> \o
                       (IF db_username = None THEN <<"proceeding_without_username">> ELSE <<>>)
            /\ pc' = "di_config"
  /\ UNCHANGED <<blob_name, user_id, random_subdirectory, mysql_env, db_username,
                 di_env, receipt_result, extract_vars, cosmos_env, calls,
                 container_items, helper_vars>>

\* ------------------------------------- event_grid_blob_trigger, continued
\* blob_url, the DI_* values and the initialisation of the extraction locals
CheckDIConfig ==
  /\ pc = "di_config"
  /\ \E env \in [DIKeys -> EnvValues] :
       /\ di_env' = env
       /\ IF AllTruthy(env)
          THEN /\ fecha_transaccion' = None
               /\ monto_total' = None
               /\ extracted_items' = <<>>
               /\ full_receipt_data' = EmptyReceipt
               /\ item_confidences' = <<>>
               /\ log' = Append(log, "processing_url")
               /\ pc' = "analyze"
          ELSE /\ UNCHANGED extract_vars
               /\ log' = log \o <<"processing_url", "di_env_missing">>
               /\ pc' = "done"
  /\ UNCHANGED <<blob_name, user_id, random_subdirectory, lookup_vars, receipt_result,
                 cosmos_env, calls, container_items, helper_vars>>

\* the client, myblob.read(), begin_analyze_document(...) and poller.result();
\* an exception before or in the call ends the run
Analyze ==
  /\ pc = "analyze"
  /\ \E outcome \in {"client_error", "analyze_error", "result"} :
       CASE outcome = "client_error" ->
              /\ UNCHANGED <<calls, receipt_result>>
              /\ log' = Append(log, "di_error")
              /\ pc' = "done"
         [] outcome = "analyze_error" ->
              /\ calls' = Append(calls, "analyze")
              /\ UNCHANGED receipt_result
              /\ log' = Append(log, "di_error")
              /\ pc' = "done"
         [] outcome = "result" ->
              /\ calls' = Append(calls, "analyze")
              /\ \E documents \in AnalysisResults :
                   receipt_result' = [documents |-> documents]
              /\ log' = Append(log, "raw_result")
              /\ pc' = "process"
  /\ UNCHANGED <<blob_name, user_id, random_subdirectory, lookup_vars, di_env,
                 extract_vars, cosmos_env, container_items, helper_vars>>

\* the extraction with an except block that logs and does not return
ProcessDocumentsNoReturn ==
  /\ pc = "process"
  /\ LET st == ProcessDocs([fecha |-> fecha_transaccion, monto |-> monto_total,
                            items |-> extracted_items, confs |-> item_confidences,
                            data |-> full_receipt_data, log |-> log, raised |-> FALSE],
                           DocumentsVisited(receipt_result.documents), 1)
     IN /\ fecha_transaccion' = st.fecha
        /\ monto_total' = st.monto
        /\ extracted_items' = st.items
        /\ item_confidences' = st.confs
        /\ full_receipt_data' = st.data
        /\ IF st.raised
           THEN log' = Append(st.log, "di_error") /\ pc' = "validate"
           ELSE /\ log' = IF receipt_result.documents = <<>> THEN Append(st.log, "no_documents")
                                                   ELSE st.log
                /\ pc' = "aggregate"
  /\ UNCHANGED <<blob_name, user_id, random_subdirectory, lookup_vars, di_env,
                 receipt_result, cosmos_env, calls, container_items, helper_vars>>

\* "if receipt_result.documents: for doc in ...: ...; break", inside the try
ProcessDocuments ==
  /\ pc = "process"
  /\ LET st == ProcessDocs([fecha |-> fecha_transaccion, monto |-> monto_total,
                            items |-> extracted_items, confs |-> item_confidences,
                            data |-> full_receipt_data, log |-> log, raised |-> FALSE],
                           DocumentsVisited(receipt_result.documents), 1)
     IN /\ fecha_transaccion' = st.fecha
        /\ monto_total' = st.monto
        /\ extracted_items' = st.items
        /\ item_confidences' = st.confs
        /\ full_receipt_data' = st.data
        /\ IF st.raised
           THEN log' = Append(st.log, "di_error") /\ pc' = "done"
           ELSE /\ log' = IF receipt_result.documents = <<>> THEN Append(st.log, "no_documents")
                                                   ELSE st.log
                /\ pc' = "aggregate"
  /\ UNCHANGED <<blob_name, user_id, random_subdirectory, lookup_vars, di_env,
                 receipt_result, cosmos_env, calls, container_items, helper_vars>>

\* full_receipt_data["itemsConfidenceScore"], the last statement of the try
AggregateConfidence ==
  /\ pc = "aggregate"
  /\ IF item_confidences # <<>>
     THEN \E score \in RoundedMean(SumConf(item_confidences), Len(item_confidences)) :
            /\ full_receipt_data' =
                 [full_receipt_data EXCEPT !["itemsConfidenceScore"] = Num(score)]
            /\ log' = Append(log, "average_confidence")
     ELSE /\ full_receipt_data' =
                 [full_receipt_data EXCEPT !["itemsConfidenceScore"] = None]
          /\ log' = Append(log, "no_confidences")
  /\ pc' = "validate"
  /\ UNCHANGED <<blob_name, user_id, random_subdirectory, lookup_vars, di_env,
                 receipt_result, fecha_transaccion, monto_total, extracted_items,
                 item_confidences, cosmos_env, calls, container_items, helper_vars>>

\* a check that lets a missing date through
RequiredMissingMontoOnly(fecha, monto) == monto = None

\* if fecha_transaccion is None or monto_total is None
RequiredMissing(fecha, monto) == fecha = None \/ monto = None

Validate ==
  /\ pc = "validate"
  /\ IF RequiredMissing(fecha_transaccion, monto_total)
     THEN log' = Append(log, "validation_failed") /\ pc' = "done"
     ELSE log' = log /\ pc' = "cosmos_config"
  /\ UNCHANGED <<blob_name, user_id, random_subdirectory, lookup_vars, di_env,
                 receipt_result, extract_vars, cosmos_env, calls, container_items,
                 helper_vars>>

CheckCosmosConfig ==
  /\ pc = "cosmos_config"
  /\ \E env \in [CosmosKeys -> EnvValues] :
       /\ cosmos_env' = env
       /\ IF AllTruthy(env)
          THEN log' = log /\ pc' = "persist"
          ELSE log' = Append(log, "cosmos_env_missing") /\ pc' = "done"
  /\ UNCHANGED <<blob_name, user_id, random_subdirectory, lookup_vars, di_env,
                 receipt_result, extract_vars, calls, container_items, helper_vars>>

\* final_cosmos_document; uuid4() is one fixed token here
FinalDocument ==
  [key \in FinalKeys \cup ReceiptKeys |->
     CASE key = "id" -> Str(<<"i">>)
       [] key = "userId" -> user_id
       [] key = "id_usuario" -> user_id
       [] key = "username" -> username
       [] key = "directorio" -> random_subdirectory
       [] key = "blobURL" -> BlobUri
       [] OTHER -> full_receipt_data[key]]

\* the finished marker logged at the end of the try instead of in a finally
PersistNoFinally ==
  /\ pc = "persist"
  /\ \E outcome \in {"client_error", "insert_error", "saved"} :
       CASE outcome = "client_error" ->
              /\ UNCHANGED <<calls, container_items>>
              /\ log' = log \o <<"cosmos_error">>
         [] outcome = "insert_error" ->
              /\ calls' = Append(calls, "cosmos")
              /\ UNCHANGED container_items
              /\ log' = log \o <<"cosmos_error">>
         [] outcome = "saved" ->
              /\ calls' = Append(calls, "cosmos")
              /\ container_items' = Append(container_items, FinalDocument)
              /\ log' = log \o <<"saved", "FINISHED">>
  /\ pc' = "done"
  /\ UNCHANGED <<blob_name, user_id, random_subdirectory, lookup_vars, di_env,
                 receipt_result, extract_vars, cosmos_env, helper_vars>>

\* the Cosmos try / except / finally
Persist ==
  /\ pc = "persist"
  /\ \E outcome \in {"client_error", "insert_error", "saved"} :
       CASE outcome = "client_error" ->
              /\ UNCHANGED <<calls, container_items>>
              /\ log' = log \o <<"cosmos_error", "FINISHED">>
         [] outcome = "insert_error" ->
              /\ calls' = Append(calls, "cosmos")
              /\ UNCHANGED container_items
              /\ log' = log \o <<"cosmos_error", "FINISHED">>
         [] outcome = "saved" ->
              /\ calls' = Append(calls, "cosmos")
              /\ container_items' = Append(container_items, FinalDocument)
              /\ log' = log \o <<"saved", "FINISHED">>
  /\ pc' = "done"
  /\ UNCHANGED <<blob_name, user_id, random_subdirectory, lookup_vars, di_env,
                 receipt_result, extract_vars, cosmos_env, helper_vars>>

\* ------------------------------------------------------- specifications
HelpersIdle == fpc = "idle" /\ field_in = None /\ field_out = None

Init ==
  /\ pc = "start"
  /\ blob_name \in BlobNames
  /\ user_id = Unbound /\ random_subdirectory = Unbound
  /\ mysql_env = Unbound /\ cnx = Unbound /\ db_username = Unbound
  /\ username = Unbound
  /\ di_env = Unbound
  /\ receipt_result = Unbound
  /\ fecha_transaccion = Unbound /\ monto_total = Unbound
  /\ extracted_items = Unbound /\ item_confidences = Unbound
  /\ full_receipt_data = Unbound
  /\ cosmos_env = Unbound
  /\ calls = <<>>
  /\ log = <<>>
  /\ container_items = <<>>
  /\ HelpersIdle

Next ==
  \/ Trigger
  \/ ParsePath
  \/ LookupReadEnv
  \/ LookupConnect
  \/ LookupQuery
  \/ LookupFinally
  \/ CheckDIConfig
  \/ Analyze
  \/ ProcessDocuments
  \/ AggregateConfidence
  \/ Validate
  \/ CheckCosmosConfig
  \/ Persist

Spec == Init /\ [][Next]_vars

\* ---- the helpers called directly on every generated field
CallGetFieldValue ==
  /\ fpc = "call"
  /\ field_out' = get_field_value(field_in)
  /\ fpc' = "value"
  /\ UNCHANGED <<field_in, handler_vars>>

CallGetFieldConfidence ==
  /\ fpc = "call"
  /\ field_out' = get_field_confidence(field_in)
  /\ fpc' = "confidence"
  /\ UNCHANGED <<field_in, handler_vars>>

InitField ==
  /\ pc = "idle"
  /\ blob_name = <<>>
  /\ user_id = Unbound /\ random_subdirectory = Unbound
  /\ mysql_env = Unbound /\ cnx = Unbound /\ db_username = Unbound
  /\ username = Unbound
  /\ di_env = Unbound
  /\ receipt_result = Unbound
  /\ fecha_transaccion = Unbound /\ monto_total = Unbound
  /\ extracted_items = Unbound /\ item_confidences = Unbound
  /\ full_receipt_data = Unbound
  /\ cosmos_env = Unbound
  /\ calls = <<>>
  /\ log = <<>>
  /\ container_items = <<>>
  /\ fpc = "call"
  /\ field_in \in FieldInputs
  /\ field_out = Unbound

NextField == CallGetFieldValue \/ CallGetFieldConfidence

SpecField == InitField /\ [][NextField]_vars

\* ---- the extraction steps of the handler on every generated Items array:
\* the invocation for blob d/u/d/f, after the lookup found a username and the
\* analysis returned one document
InitNormalize ==
  /\ pc = "process"
  /\ blob_name = Join(<<<<"d">>, <<"u">>, <<"d">>, <<"f">>>>)
  /\ user_id = Str(<<"u">>) /\ random_subdirectory = Str(<<"d">>)
  /\ mysql_env = [name \in MysqlKeys |-> Str(<<"x">>)]
  /\ cnx = Connection("closed")
  /\ db_username = Str(<<"n">>)
  /\ username = Str(<<"n">>)
  /\ di_env = [name \in DIKeys |-> Str(<<"x">>)]
  /\ receipt_result \in {[documents |-> d] : d \in NormalizeResults}
  /\ fecha_transaccion = None /\ monto_total = None
  /\ extracted_items = <<>> /\ item_confidences = <<>>
  /\ full_receipt_data = EmptyReceipt
  /\ cosmos_env = Unbound
  /\ calls = <<"mysql", "analyze">>
  /\ log = <<"STARTED", "processing_blob", "username_found", "mysql_closed",
             "processing_url", "raw_result">>
  /\ container_items = <<>>
  /\ HelpersIdle

NextNormalize == ProcessDocuments \/ AggregateConfidence \/ Validate

SpecNormalize == InitNormalize /\ [][NextNormalize]_vars

\* ------------------------------------------------------------ properties
InCalls(c) == \E i \in DOMAIN calls : calls[i] = c
Logged(m) == \E i \in DOMAIN log : log[i] = m
Ended == pc \in {"done", "raised"}

\* a configuration read from the environment with a value unset or empty
ConfigMissing(env) ==
  /\ env # Unbound
  /\ \E name \in DOMAIN env : env[name] \in {None, Str(<<>>)}
ConfigComplete(env) ==
  /\ env # Unbound
  /\ \A name \in DOMAIN env : env[name] \notin {None, Str(<<>>)}

\* the '/'-separated segments of a path, by the positions of its slashes
SlashPositions(s) == {i \in 1..Len(s) : s[i] = "/"}
SegmentCount(s) == Cardinality(SlashPositions(s)) + 1
NthSlash(s, n) ==
  CHOOSE i \in SlashPositions(s) : Cardinality({j \in SlashPositions(s) : j < i}) = n - 1
Segment(s, n) ==
  SubSeq(s, IF n = 1 THEN 1 ELSE NthSlash(s, n - 1) + 1,
            IF n = SegmentCount(s) THEN Len(s) ELSE NthSlash(s, n) - 1)

\* the first document of the analysis result, once there is one
FirstDoc == receipt_result.documents[1]
HasFirstDoc == receipt_result # Unbound /\ receipt_result.documents # <<>>

\* C1: the Cosmos insert is attempted only when fechaTransaccion and montoTotal were
\* both extracted non-null from the first document; with no document, or a first
\* document lacking either field or giving null for it, no insert is ever made.
C1_InsertOnlyWithRequiredFields ==
  (pc = "persist" \/ InCalls("cosmos") \/ container_items # <<>>) =>
     /\ HasFirstDoc
     /\ FirstDoc.fields["FechaTransaccion"] # Absent
     /\ FirstDoc.fields["MontoTotal"] # Absent
     /\ get_field_value(FirstDoc.fields["FechaTransaccion"]) # None
     /\ get_field_value(FirstDoc.fields["MontoTotal"]) # None
     /\ fecha_transaccion \notin {None, Unbound}
     /\ monto_total \notin {None, Unbound}
     /\ \A i \in DOMAIN container_items :
          /\ container_items[i]["fechaTransaccion"] \notin {None, Absent}
          /\ container_items[i]["montoTotal"] \notin {None, Absent}

C1_Witness == pc = "done" /\ InCalls("cosmos") /\ container_items # <<>>

\* C2: whatever way the lookup fails (MySQL configuration missing, connection
\* failure, query failure, no matching row), nothing is raised to the host and
\* the handler goes on with username = None.
C2_LookupFailureNonFatal ==
  (Logged("mysql_env_missing") \/ Logged("mysql_error") \/ Logged("no_username_found")) =>
     /\ pc # "raised"
     /\ pc \notin {"lookup_connect", "lookup_query", "lookup_finally"} => username = None

\* C3 as stated: with a document-analysis or document-store configuration value
\* missing, no external call at all is made in the invocation.
C3_NoExternalCallWhenConfigMissing ==
  (ConfigMissing(di_env) \/ ConfigMissing(cosmos_env)) => calls = <<>>

\* C3 amended: a missing configuration value stops the invocation before the
\* external call that needs it: without the document-analysis endpoint or key
\* neither the analysis nor the insert is called, without a document-store value
\* the insert is not called (calls earlier in the order have been made by then).
C3_NoDependentCallWhenConfigMissing ==
  /\ ConfigMissing(di_env) =>
       ~InCalls("analyze") /\ ~InCalls("cosmos") /\ container_items = <<>>
  /\ ConfigMissing(cosmos_env) => ~InCalls("cosmos") /\ container_items = <<>>

C3_Witness ==
  pc = "done" /\ ConfigMissing(cosmos_env) /\ calls = <<"mysql", "analyze">>

\* C4 as stated: every invocation that logged the start marker and has ended has
\* logged the finished marker.
C4_FinishedAlwaysLogged ==
  (Ended /\ Logged("STARTED")) => Logged("FINISHED")

\* C4 amended: an ended invocation has logged the finished marker, as its last
\* message, exactly when it entered the document-store step (required fields
\* present and the document-store configuration complete), whether the insert
\* succeeded or failed; every earlier exit ends without the marker.
C4_FinishedIffPersistEntered ==
  Ended =>
     /\ Logged("FINISHED") <=> (ConfigComplete(cosmos_env) /\ fecha_transaccion # None
                                 /\ monto_total # None)
     /\ Logged("FINISHED") => log[Len(log)] = "FINISHED"

C4_Witness ==
  pc = "done" /\ Logged("cosmos_error") /\ log[Len(log)] = "FINISHED"

\* C5: a path ending in '/.placeholder' or with fewer than 4 segments makes no
\* external call; otherwise userId is the 2nd and directorio the 3rd segment.
C5_PathRule ==
  /\ (EndsWith(blob_name, PlaceholderSuffix) \/ SegmentCount(blob_name) < 4) =>
       calls = <<>> /\ container_items = <<>>
  /\ (pc \notin {"idle", "start", "parse"} /\ ~EndsWith(blob_name, PlaceholderSuffix)
        /\ SegmentCount(blob_name) >= 4) =>
       /\ user_id = Str(Segment(blob_name, 2))
       /\ random_subdirectory = Str(Segment(blob_name, 3))
       /\ \A i \in DOMAIN container_items :
            /\ container_items[i]["userId"] = Str(Segment(blob_name, 2))
            /\ container_items[i]["directorio"] = Str(Segment(blob_name, 3))

C5_Witness ==
  /\ container_items # <<>>
  /\ SegmentCount(blob_name) >= 4
  /\ user_id = Str(<<"u">>)
  /\ random_subdirectory = Str(<<"d">>)

CallRank(c) == CASE c = "mysql" -> 1 [] c = "analyze" -> 2 [] c = "cosmos" -> 3

\* C6: the external calls are made at most once each and in the order lookup,
\* analysis, insert; the insert is called only after the analysis and the
\* extraction completed without raising, so an exception there persists nothing.
C6_CallsOnceInOrder ==
  /\ \A i, j \in DOMAIN calls : i < j => CallRank(calls[i]) < CallRank(calls[j])
  /\ InCalls("cosmos") => InCalls("analyze") /\ Logged("raw_result") /\ ~Logged("di_error")
  /\ Logged("di_error") => ~InCalls("cosmos") /\ container_items = <<>>

C6_Witness == pc = "done" /\ calls = <<"mysql", "analyze", "cosmos">>

\* ---- the Items array of the first document, read entry by entry
ItemsArray == FirstDoc.fields["Items"].v.value_array
HasItemsArray ==
  /\ HasFirstDoc
  /\ FirstDoc.fields["Items"] \notin {Absent, None}
  /\ ItemsArray.k = "list"
Extracted == pc \in {"aggregate", "validate", "cosmos_config", "persist", "done"}
Aggregated == pc \in {"validate", "cosmos_config", "persist", "done"}

\* the entry has an object payload holding at least one of the four sub-fields
Qualifies(entry) ==
  /\ entry # None
  /\ entry.v.value_object.k = "dict"
  /\ \E j \in DOMAIN SubFields : entry.v.value_object.v[SubFields[j][1]] # Absent
\* the LineItem of a qualifying entry: each present sub-field under its key
LineItemOf(entry) ==
  [key \in ItemKeys |->
     LET j == CHOOSE n \in DOMAIN SubFields : SubFields[n][2] = key
         sub == entry.v.value_object.v[SubFields[j][1]]
     IN IF sub = Absent THEN Absent ELSE get_field_value(sub)]
\* the k-th smallest member of a set of indices
NthOf(Q, k) == CHOOSE i \in Q : Cardinality({j \in Q : j < i}) = k - 1
ExpectedItems(arr) ==
  LET Q == {i \in DOMAIN arr : Qualifies(arr[i])}
  IN [k \in 1..Cardinality(Q) |-> LineItemOf(arr[NthOf(Q, k)])]

\* C7: the items list holds, in the array's order, exactly one LineItem for each
\* entry that has an object payload with at least one of Description, Quantity,
\* TotalPrice, UnitPrice in it (the sub-field was read, whatever value it gave);
\* entries without an object payload are skipped and the run goes on.
C7_ItemsInOrder ==
  (Extracted /\ HasItemsArray) =>
     /\ Len(extracted_items) = Cardinality({i \in DOMAIN ItemsArray.v : Qualifies(ItemsArray.v[i])})
     /\ \A k \in DOMAIN extracted_items : extracted_items[k] = ExpectedItems(ItemsArray.v)[k]
     /\ ItemsArray.v # <<>> =>
          /\ full_receipt_data["items"] # Absent
          /\ full_receipt_data["items"].v = extracted_items

C7_Witness ==
  /\ pc = "validate"
  /\ HasItemsArray
  /\ ItemsArray.v = <<EntryDesc, EntryNoObject, EntryAll>>
  /\ Len(extracted_items) = 2
  /\ Logged("item_no_value_object")

\* the (entry, sub-field) positions whose confidence the extraction collects
ConfidencePositions(arr) ==
  {p \in (DOMAIN arr) \X (DOMAIN SubFields) :
     /\ arr[p[1]] # None
     /\ arr[p[1]].v.value_object.k = "dict"
     /\ \E key \in ObjKeys : arr[p[1]].v.value_object.v[key] # Absent
     /\ arr[p[1]].v.value_object.v[SubFields[p[2]][1]] \notin {Absent, None}
     /\ arr[p[1]].v.value_object.v[SubFields[p[2]][1]].v.confidence \notin {NoAttr, None}}
ConfidenceAt(arr, p) == arr[p[1]].v.value_object.v[SubFields[p[2]][1]].v.confidence.v
RECURSIVE SumAt(_, _)
SumAt(arr, P) ==
  IF P = {} THEN 0
  ELSE LET p == CHOOSE x \in P : TRUE IN ConfidenceAt(arr, p) + SumAt(arr, P \ {p})
Score == full_receipt_data["itemsConfidenceScore"]

\* C8: itemsConfidenceScore is null exactly when no sub-field confidence was
\* collected, and otherwise is the multiple of 0.0001 nearest to the mean of all
\* collected non-null confidences (confidences and score in units of 0.0001).
C8_ScoreIsRoundedMean ==
  Aggregated =>
     LET P == IF HasItemsArray THEN ConfidencePositions(ItemsArray.v) ELSE {}
         n == Cardinality(P)
         total == SumAt(ItemsArray.v, P)
     IN /\ n = Len(item_confidences)
        /\ (n = 0) <=> (Score = None)
        /\ n > 0 =>
             /\ Score.k = "num"
             /\ 2 * (Score.v * n - total) <= n
             /\ 2 * (total - Score.v * n) <= n

C8_Witness ==
  /\ pc = "validate"
  /\ item_confidences = <<Num(9000), Num(8000), Num(9500), Num(9900)>>
  /\ Score = Num(9100)

\* ---- the variants of a field in get_field_value's order
VariantOrder ==
  <<"value_string", "value_number", "value_date", "value_time", "value_currency", "value">>
Populated(field, a) ==
  /\ field.v[a] \notin {NoAttr, None}
  /\ a = "value_currency" => field.v[a].v.amount \notin {NoAttr, None}
\* the value a populated variant stands for: dates as YYYY-MM-DD, times as
\* HH:MM:SS, a currency as its amount
VariantValue(field, a) ==
  CASE a = "value_date" ->
         Str(Pad(field.v[a].v[1], 4) \o <<"-">> \o Pad(field.v[a].v[2], 2) \o <<"-">>
             \o Pad(field.v[a].v[3], 2))
    [] a = "value_time" ->
         Str(Pad(field.v[a].v[1], 2) \o <<":">> \o Pad(field.v[a].v[2], 2) \o <<":">>
             \o Pad(field.v[a].v[3], 2))
    [] a = "value_currency" -> field.v[a].v.amount
    [] OTHER -> field.v[a]

\* C9: get_field_value returns the value of the first populated variant in the
\* order string, number, date, time, currency amount, generic value (dates and
\* times in their formatted form), and null for a null field or a field with no
\* populated variant; with exactly one populated variant it returns that one.
C9_FirstPopulatedWins ==
  fpc = "value" =>
     LET P == IF field_in = None THEN {}
              ELSE {i \in DOMAIN VariantOrder : Populated(field_in, VariantOrder[i])}
     IN /\ P = {} => field_out = None
        /\ P # {} =>
             \E i \in P : /\ \A j \in P : i <= j
                           /\ field_out = VariantValue(field_in, VariantOrder[i])
        /\ Cardinality(P) = 1 =>
             \A i \in P : field_out = VariantValue(field_in, VariantOrder[i])

C9_Witness ==
  /\ fpc = "value"
  /\ field_in # None
  /\ ~Populated(field_in, "value_string")
  /\ ~Populated(field_in, "value_number")
  /\ Populated(field_in, "value_date")
  /\ Populated(field_in, "value_time")
  /\ field_out = Str(<<"2", "0", "2", "4", "-", "0", "5", "-", "0", "1">>)

\* the extraction locals after the loop body has run on the one document doc
RecordOf(doc) ==
  ProcessDoc([fecha |-> None, monto |-> None, items |-> <<>>, confs |-> <<>>,
              data |-> EmptyReceipt, log |-> <<>>, raised |-> FALSE], doc)

\* C10: with any number of documents in the result, the required fields, the
\* items, the collected confidences and every named field of the record are
\* those of the first document; later documents change nothing, also in the
\* document that is persisted.
C10_FirstDocumentOnly ==
  (Extracted /\ HasFirstDoc) =>
     LET first == RecordOf(FirstDoc)
     IN /\ fecha_transaccion = first.fecha
        /\ monto_total = first.monto
        /\ extracted_items = first.items
        /\ item_confidences = first.confs
        /\ \A key \in ReceiptKeys \ {"itemsConfidenceScore"} :
             /\ full_receipt_data[key] = first.data[key]
             /\ \A i \in DOMAIN container_items :
                  container_items[i][key] = first.data[key]

C10_Witness ==
  /\ container_items # <<>>
  /\ receipt_result.documents = <<DocFull, DocOther>>

====
